---- MODULE Spec2Model ----
(***************************************************************************)
(* Model of the CDN garbage collector of engine/cdn/cdn_gc.go: the two     *)
(* ticker-driven loops itemPurge and itemsGC, the three sweeps they run    *)
(* (cleanItemToDelete, cleanBuffer, cleanWaitingItem), and the item        *)
(* registry / item-unit tables they share with ingestion, replication and  *)
(* the mark-for-deletion request.                                          *)
(***************************************************************************)
EXTENDS Integers, FiniteSets, Sequences, TLC

\* ------------------------------------------------------------------ bounds
MaxItems == 2      \* item ids that ingestion may create: 1..MaxItems
MaxPerm == 1       \* permanent units besides the legacy one
MaxBacklog == 230  \* largest toDelete backlog of the sweep-only specification
MaxMark == 3       \* items of the registry the mark request is checked on
MaxLines == 4      \* line numbers a producer may use: 0..MaxLines-1
MaxQueue == 2      \* capacity of a subscriber's delivery queue
MaxMissed == 3     \* ticks of tickPurge counted as dropped since a run began

\* --------------------------------------------------------------- constants
ItemLogGC == 24 * 3600
BatchSize == 100
BufferID == 0
CDSID == 1
EmptyID == -1      \* the empty string of cdsBackendID

StatusItemIncoming == "Incoming"
StatusItemCompleted == "Completed"

ItemIDs == 1..MaxItems
PermanentIDs == {CDSID} \cup (2..(MaxPerm + 1))

\* Ages the model distinguishes: just written, exactly the threshold, past it.
Ages == {0, ItemLogGC, ItemLogGC + 1}

VARIABLES
    Storages,      \* s.Units.Storages: the registered permanent units
    dbItem,        \* table item: id -> [status, toDelete]
    dbItemUnit,    \* table storage_unit_item: <<itemID, unitID>> -> last-write age
    nextID,        \* next fresh item id
    ctxDone,       \* ctx has been cancelled
    tickPurge,     \* tickPurge.C holds a tick
    ticksMissed,   \* ticks tickPurge dropped since the last run began
    tickGC,        \* tickGC.C holds a tick
    pcPurge,       \* position of itemPurge
    ids,           \* cleanItemToDelete: ids of the current batch
    errPurge,      \* itemPurge: the last cleanItemToDelete returned an error
    pcGC,          \* position of itemsGC
    itemIDs,       \* cleanBuffer: result of the replication query
    itemUnits,     \* cleanWaitingItem: item units still to range over
    errGC,         \* itemsGC: an error was returned by the sweep just run
    cbStart,       \* item ids buffered and fully replicated when cleanBuffer began
    metricsItemCompletedByGC,  \* telemetry counter
    dbLine,        \* stored lines: <<itemID, number>>
    messageCounter, \* the producer's next line number
    subState,      \* the subscription: "closed", "replay" or "live"
    subOffset,     \* offset the subscription was opened with
    subQueue,      \* live lines queued for the subscriber
    subOut,        \* line numbers delivered to the subscriber, in order
    linesReq,      \* last getLines request: [offset, limit]
    linesResp      \* its response: line numbers, in order

dbVars == <<dbItem, dbItemUnit, nextID>>
envVars == <<Storages, ctxDone>>
purgeVars == <<tickPurge, ticksMissed, pcPurge, ids, errPurge>>
gcVars == <<tickGC, pcGC, itemIDs, itemUnits, errGC, cbStart, metricsItemCompletedByGC>>
streamVars == <<messageCounter, subState, subOffset, subQueue, subOut,
                linesReq, linesResp>>
vars == <<Storages, dbItem, dbItemUnit, nextID, ctxDone, tickPurge, ticksMissed, tickGC,
          pcPurge, ids, errPurge, pcGC, itemIDs, itemUnits, errGC, cbStart,
          metricsItemCompletedByGC, dbLine, messageCounter,
          subState, subOffset, subQueue, subOut, linesReq, linesResp>>

\* ----------------------------------------------------------------- helpers
Restrict(f, S) == [x \in S |-> f[x]]

HasUnit(i, u) == <<i, u>> \in DOMAIN dbItemUnit

\* apiRef of an item, fixed at creation: (RunID, WorkflowID) = (1,1), (2,2), (3,2), ...
RunID(i) == i
WorkflowID(i) == (i + 2) \div 2

\* Both loops wait in their select, no tick is pending, nothing is loaded.
InitService ==
    /\ ctxDone = FALSE
    /\ tickPurge = FALSE
    /\ ticksMissed = 0
    /\ tickGC = FALSE
    /\ pcPurge = "select"
    /\ ids = {}
    /\ errPurge = FALSE
    /\ pcGC = "select"
    /\ itemIDs = {}
    /\ itemUnits = {}
    /\ errGC = FALSE
    /\ cbStart = {}
    /\ metricsItemCompletedByGC = 0
    /\ messageCounter = 0
    /\ subState = "closed"
    /\ subOffset = 0
    /\ subQueue = << >>
    /\ subOut = << >>
    /\ linesReq = [offset |-> 0, limit |-> 0]
    /\ linesResp = << >>

Init ==
    /\ Storages \in SUBSET PermanentIDs
    /\ dbItem = << >>
    /\ dbItemUnit = << >>
    /\ dbLine = {}
    /\ nextID = 1
    /\ InitService

\* ------------------------------------------------------- registry operators
\* index.LoadItemIDsToDelete(db, size): up to size ids with toDelete set, in a
\* fixed order (ascending id).
LoadItemIDsToDelete(size) ==
    LET flagged == {i \in DOMAIN dbItem : dbItem[i].toDelete}
    IN {i \in flagged : Cardinality({j \in flagged : j < i}) < size}

\* index.DeleteItemByIDs(db, ids): removes the item rows; the rows of
\* storage_unit_item that reference them go with them.
DeleteItemByIDsItem(del) == Restrict(dbItem, DOMAIN dbItem \ del)
DeleteItemByIDsUnits(del) ==
    Restrict(dbItemUnit, {k \in DOMAIN dbItemUnit : k[1] \notin del})

\* index.DeleteItemByIDs, cascade: the lines of the deleted items go too.
DeleteItemByIDsLines(del) == {l \in dbLine : l[1] \notin del}

\* storage.LoadAllItemsIDInBufferAndAllUnitsExceptCDS(db, cdsBackendID)
LoadAllItemsIDInBufferAndAllUnitsExceptCDS(cds) ==
    {i \in DOMAIN dbItem :
        /\ HasUnit(i, BufferID)
        /\ \A u \in Storages \ {cds} : HasUnit(i, u)}

\* storage.DeleteItemsUnit(tx, unitID, itemIDs)
DeleteItemsUnit(unitID, del) ==
    Restrict(dbItemUnit,
             {k \in DOMAIN dbItemUnit : ~(k[2] = unitID /\ k[1] \in del)})

\* storage.LoadOldItemUnitByItemStatusAndDuration(ctx, m, db, status, duration)
LoadOldItemUnitByItemStatusAndDuration(status, duration) ==
    {k \in DOMAIN dbItemUnit :
        /\ k[1] \in DOMAIN dbItem
        /\ dbItem[k[1]].status = status
        /\ dbItemUnit[k] > duration}

\* s.completeItem(ctx, tx, itemUnit): the item of the item unit becomes Completed.
completeItem(iu) ==
    [dbItem EXCEPT ![iu[1]].status = StatusItemCompleted]

\* Variant of Matches that compares the workflow id of the selector with the
\* run id of the item.
MatchesRunOnly(sel, i) ==
    IF sel.runID # 0 THEN RunID(i) = sel.runID
    ELSE RunID(i) = sel.workflowID

\* markToDelete(selector): a run id scopes to that run, else the workflow id
\* scopes to every run of the workflow.
Matches(sel, i) ==
    IF sel.runID # 0 THEN RunID(i) = sel.runID
    ELSE WorkflowID(i) = sel.workflowID

Selectors ==
    {[runID |-> r, workflowID |-> 0] : r \in 1..MaxItems}
    \cup {[runID |-> 0, workflowID |-> w] : w \in 1..MaxItems}

\* ------------------------------------------------------------- environment
\* The clock advances: every stored last-write age moves to the next age class.
NextAge(a) == IF a = 0 THEN ItemLogGC ELSE ItemLogGC + 1

TimePasses ==
    /\ \E k \in DOMAIN dbItemUnit : dbItemUnit[k] # ItemLogGC + 1
    /\ dbItemUnit' = [k \in DOMAIN dbItemUnit |-> NextAge(dbItemUnit[k])]
    /\ UNCHANGED <<dbItem, nextID, envVars, purgeVars, gcVars>>
    /\ UNCHANGED <<dbLine, streamVars>>

\* Ingestion of the first line of a new log: creates the item (Incoming) and
\* its item unit in the buffer.
storeLogsNew ==
    /\ nextID <= MaxItems
    /\ dbItem' = [i \in DOMAIN dbItem \cup {nextID} |->
                    IF i = nextID
                    THEN [status |-> StatusItemIncoming, toDelete |-> FALSE]
                    ELSE dbItem[i]]
    /\ dbItemUnit' = [k \in DOMAIN dbItemUnit \cup {<<nextID, BufferID>>} |->
                        IF k = <<nextID, BufferID>> THEN 0 ELSE dbItemUnit[k]]
    /\ nextID' = nextID + 1
    /\ UNCHANGED <<envVars, purgeVars, gcVars>>
    /\ UNCHANGED <<dbLine, streamVars>>

\* Ingestion of a further line of an Incoming item: writes to the buffer unit.
storeLogs(i) ==
    /\ i \in DOMAIN dbItem
    /\ dbItem[i].status = StatusItemIncoming
    /\ dbItemUnit' = [k \in DOMAIN dbItemUnit \cup {<<i, BufferID>>} |->
                        IF k = <<i, BufferID>> THEN 0 ELSE dbItemUnit[k]]
    /\ UNCHANGED <<dbItem, nextID, envVars, purgeVars, gcVars>>
    /\ UNCHANGED <<dbLine, streamVars>>

\* The producer signals end-of-stream.
ProducerComplete(i) ==
    /\ i \in DOMAIN dbItem
    /\ dbItem' = completeItem(<<i, BufferID>>)
    /\ UNCHANGED <<dbItemUnit, nextID, envVars, purgeVars, gcVars>>
    /\ UNCHANGED <<dbLine, streamVars>>

\* Replication writes the content of an item to a registered permanent unit.
Replicate(i, u) ==
    /\ i \in DOMAIN dbItem
    /\ u \in Storages
    /\ ~HasUnit(i, u)
    /\ dbItemUnit' = [k \in DOMAIN dbItemUnit \cup {<<i, u>>} |->
                        IF k = <<i, u>> THEN 0 ELSE dbItemUnit[k]]
    /\ UNCHANGED <<dbItem, nextID, envVars, purgeVars, gcVars>>
    /\ UNCHANGED <<dbLine, streamVars>>

\* The mark-for-deletion request.
markToDelete(sel) ==
    /\ dbItem' = [i \in DOMAIN dbItem |->
                    IF Matches(sel, i) THEN [dbItem[i] EXCEPT !.toDelete = TRUE]
                    ELSE dbItem[i]]
    /\ UNCHANGED <<dbItemUnit, nextID, envVars, purgeVars, gcVars>>
    /\ UNCHANGED <<dbLine, streamVars>>

\* The service context is cancelled.
Cancel ==
    /\ ~ctxDone
    /\ ctxDone' = TRUE
    /\ UNCHANGED <<Storages, dbVars, purgeVars, gcVars>>
    /\ UNCHANGED <<dbLine, streamVars>>

\* The tickers deliver a tick unless their channel already holds one, or the
\* loop has returned (deferred Stop).  A tick of tickPurge that finds the
\* channel full is dropped: the channel of a time.Ticker holds one tick.
TickPurgeDropped ==
    /\ pcPurge # "done"
    /\ tickPurge
    /\ ticksMissed < MaxMissed
    /\ ticksMissed' = ticksMissed + 1
    /\ UNCHANGED <<dbVars, envVars, tickPurge, pcPurge, ids, errPurge, gcVars>>
    /\ UNCHANGED <<dbLine, streamVars>>

TickPurgeFires ==
    /\ pcPurge # "done"
    /\ ~tickPurge
    /\ tickPurge' = TRUE
    /\ UNCHANGED <<dbVars, envVars, ticksMissed, pcPurge, ids, errPurge, gcVars>>
    /\ UNCHANGED <<dbLine, streamVars>>

TickGCFires ==
    /\ pcGC # "done"
    /\ ~tickGC
    /\ tickGC' = TRUE
    /\ UNCHANGED <<dbVars, envVars, purgeVars, pcGC, itemIDs, itemUnits, errGC,
                   cbStart, metricsItemCompletedByGC>>
    /\ UNCHANGED <<dbLine, streamVars>>

\* ----------------------------------------------------------- streaming hub
\* The item the streaming and listing requests are made for.
StreamItem == 1
LineNumbers == 0..(MaxLines - 1)
Offsets == 0..MaxLines
Limits == 0..MaxLines

\* The numbers of the stored lines of item i from offset on.
StoredFrom(i, offset) == {l[2] : l \in {m \in dbLine : m[1] = i /\ m[2] >= offset}}

\* The ascending sequence of a finite set of numbers.
RECURSIVE SortAsc(_)
SortAsc(S) ==
    IF S = {} THEN << >>
    ELSE LET lo == CHOOSE x \in S : \A y \in S : x <= y
         IN  <<lo>> \o SortAsc(S \ {lo})

\* Variant of getLines that takes the offset as a position in the stored
\* sequence instead of a line number.
getLinesByRank(i, offset, limit) ==
    LET all == SortAsc(StoredFrom(i, 0))
        from == IF offset + 1 > Len(all) THEN Len(all) + 1 ELSE offset + 1
        rest == SubSeq(all, from, Len(all))
    IN  SubSeq(rest, 1, IF limit < Len(rest) THEN limit ELSE Len(rest))

\* getLines(itemID, offset, limit): the stored lines with number >= offset,
\* ascending, up to limit.
getLines(i, offset, limit) ==
    LET rest == SortAsc(StoredFrom(i, offset))
    IN  SubSeq(rest, 1, IF limit < Len(rest) THEN limit ELSE Len(rest))

\* s.storeLogs(ctx, type, signature, status, content, line): the first line
\* of a log creates the item, under the next id, and its buffer item unit;
\* the line is stored under its number, and the hub hands a line of the
\* stream item to the open subscription, which is disconnected when its queue
\* is full.
storeLogsLine(i, n) ==
    /\ \/ i \in DOMAIN dbItem /\ dbItem[i].status = StatusItemIncoming
       \/ i = nextID
    /\ dbItem' = [j \in DOMAIN dbItem \cup {i} |->
                    IF j \in DOMAIN dbItem THEN dbItem[j]
                    ELSE [status |-> StatusItemIncoming, toDelete |-> FALSE]]
    /\ dbItemUnit' = [k \in DOMAIN dbItemUnit \cup {<<i, BufferID>>} |->
                        IF k = <<i, BufferID>> THEN 0 ELSE dbItemUnit[k]]
    /\ nextID' = IF i = nextID THEN nextID + 1 ELSE nextID
    /\ dbLine' = dbLine \cup {<<i, n>>}
    /\ IF i # StreamItem \/ subState \notin {"replay", "live"}
       THEN UNCHANGED <<subState, subQueue>>
       ELSE IF Len(subQueue) < MaxQueue
            THEN subQueue' = Append(subQueue, n) /\ UNCHANGED subState
            ELSE subQueue' = << >> /\ subState' = "disconnected"

\* The producer of the stream test: line messageCounter, then messageCounter++.
sendMessage ==
    /\ messageCounter < MaxLines
    /\ storeLogsLine(StreamItem, messageCounter)
    /\ messageCounter' = messageCounter + 1
    /\ UNCHANGED <<envVars, purgeVars, gcVars, subOffset, subOut, linesReq, linesResp>>

\* The producer of the listing test: one line with a number of its choice.
storeLogsAt(i, n) ==
    /\ storeLogsLine(i, n)
    /\ UNCHANGED <<envVars, purgeVars, gcVars, messageCounter, subOffset, subOut,
                   linesReq, linesResp>>

\* getItemLogsLinesHandler: the listing request answers with getLines.
getItemLogsLinesHandler(offset, limit) ==
    /\ StreamItem \in DOMAIN dbItem
    /\ linesReq' = [offset |-> offset, limit |-> limit]
    /\ linesResp' = getLines(StreamItem, offset, limit)
    /\ UNCHANGED <<dbVars, dbLine, envVars, purgeVars, gcVars, messageCounter,
                   subState, subOffset, subQueue, subOut>>

\* getItemLogsStreamHandler, opening: the subscription is registered for live
\* lines before the stored lines are read.
subscribe(offset) ==
    /\ subState = "closed"
    /\ StreamItem \in DOMAIN dbItem
    /\ subState' = "replay"
    /\ subOffset' = offset
    /\ subQueue' = << >>
    /\ subOut' = << >>
    /\ UNCHANGED <<dbVars, dbLine, envVars, purgeVars, gcVars, messageCounter,
                   linesReq, linesResp>>

\* The subscription replays the stored lines with number >= offset, in order.
subscribeReplay ==
    /\ subState = "replay"
    /\ subOut' = SortAsc(StoredFrom(StreamItem, subOffset))
    /\ subState' = "live"
    /\ UNCHANGED <<dbVars, dbLine, envVars, purgeVars, gcVars, messageCounter,
                   subOffset, subQueue, linesReq, linesResp>>

\* The number of the last line delivered, or one below the offset.
lastDelivered == IF subOut = << >> THEN subOffset - 1 ELSE subOut[Len(subOut)]

\* Variant of subscribeDeliver that delivers every queued line.
subscribeDeliverAll ==
    /\ subState = "live"
    /\ subQueue # << >>
    /\ subOut' = Append(subOut, Head(subQueue))
    /\ subQueue' = Tail(subQueue)
    /\ UNCHANGED <<dbVars, dbLine, envVars, purgeVars, gcVars, messageCounter,
                   subState, subOffset, linesReq, linesResp>>

\* The subscription takes the next live line from its queue and delivers it
\* unless its number was delivered already or is below the offset.
subscribeDeliver ==
    /\ subState = "live"
    /\ subQueue # << >>
    /\ subOut' = IF Head(subQueue) > lastDelivered
                 THEN Append(subOut, Head(subQueue)) ELSE subOut
    /\ subQueue' = Tail(subQueue)
    /\ UNCHANGED <<dbVars, dbLine, envVars, purgeVars, gcVars, messageCounter,
                   subState, subOffset, linesReq, linesResp>>

\* --------------------------------------------------------------- itemPurge
\* Variant of itemPurgeDone that leaves the select statement and not the loop.
itemPurgeDoneBreak ==
    /\ pcPurge = "select"
    /\ ctxDone
    /\ pcPurge' = "select"
    /\ UNCHANGED <<dbVars, envVars, tickPurge, ticksMissed, ids, errPurge, gcVars>>
    /\ UNCHANGED <<dbLine, streamVars>>

\* select, case <-ctx.Done(): return
itemPurgeDone ==
    /\ pcPurge = "select"
    /\ ctxDone
    /\ pcPurge' = "done"
    /\ UNCHANGED <<dbVars, envVars, tickPurge, ticksMissed, ids, errPurge, gcVars>>
    /\ UNCHANGED <<dbLine, streamVars>>

\* Variant of itemPurgeTick over a ticker that queues the ticks it could not
\* deliver: a dropped tick is pending again as soon as one is received.
itemPurgeTickQueued ==
    /\ pcPurge = "select"
    /\ tickPurge
    /\ tickPurge' = (ticksMissed > 0)
    /\ ticksMissed' = IF ticksMissed > 0 THEN ticksMissed - 1 ELSE 0
    /\ pcPurge' = "load"
    /\ errPurge' = FALSE
    /\ UNCHANGED <<dbVars, envVars, ids, gcVars>>
    /\ UNCHANGED <<dbLine, streamVars>>

\* select, case <-tickPurge.C: call cleanItemToDelete.  When both channels are
\* ready the select statement takes either case.
itemPurgeTick ==
    /\ pcPurge = "select"
    /\ tickPurge
    /\ tickPurge' = FALSE
    /\ ticksMissed' = 0
    /\ pcPurge' = "load"
    /\ errPurge' = FALSE
    /\ UNCHANGED <<dbVars, envVars, ids, gcVars>>
    /\ UNCHANGED <<dbLine, streamVars>>

\* Variant of cleanItemToDeleteLoad whose query lacks the toDelete condition.
cleanItemToDeleteLoadAny ==
    /\ pcPurge = "load"
    /\ ids' = {i \in DOMAIN dbItem :
                 Cardinality({j \in DOMAIN dbItem : j < i}) < BatchSize}
    /\ pcPurge' = IF ids' = {} THEN "select" ELSE "delete"
    /\ UNCHANGED <<dbVars, envVars, tickPurge, ticksMissed, errPurge, gcVars>>
    /\ UNCHANGED <<dbLine, streamVars>>

\* Variant of cleanItemToDeleteLoad that loads every flagged id at once.
cleanItemToDeleteLoadNoLimit ==
    /\ pcPurge = "load"
    /\ ids' = {i \in DOMAIN dbItem : dbItem[i].toDelete}
    /\ pcPurge' = IF ids' = {} THEN "select" ELSE "delete"
    /\ UNCHANGED <<dbVars, envVars, tickPurge, ticksMissed, errPurge, gcVars>>
    /\ UNCHANGED <<dbLine, streamVars>>

\* cleanItemToDelete: ids, err := index.LoadItemIDsToDelete(db, 100), err == nil;
\* an empty batch ends the sweep with nil.
cleanItemToDeleteLoad ==
    /\ pcPurge = "load"
    /\ ids' = LoadItemIDsToDelete(BatchSize)
    /\ pcPurge' = IF ids' = {} THEN "select" ELSE "delete"
    /\ UNCHANGED <<dbVars, envVars, tickPurge, ticksMissed, errPurge, gcVars>>
    /\ UNCHANGED <<dbLine, streamVars>>

\* Variant of cleanItemToDeleteLoadErr in which itemPurge returns on the error.
cleanItemToDeleteLoadErrFatal ==
    /\ pcPurge = "load"
    /\ ids' = {}
    /\ errPurge' = TRUE
    /\ pcPurge' = "done"
    /\ UNCHANGED <<dbVars, envVars, tickPurge, ticksMissed, gcVars>>
    /\ UNCHANGED <<dbLine, streamVars>>

\* cleanItemToDelete: the load fails, the error is returned and logged.
cleanItemToDeleteLoadErr ==
    /\ pcPurge = "load"
    /\ ids' = {}
    /\ errPurge' = TRUE
    /\ pcPurge' = "select"
    /\ UNCHANGED <<dbVars, envVars, tickPurge, ticksMissed, gcVars>>
    /\ UNCHANGED <<dbLine, streamVars>>

\* Variant of cleanItemToDeleteDelete whose delete removes the item rows and
\* leaves their item units and lines.
cleanItemToDeleteDeleteNoCascade ==
    /\ pcPurge = "delete"
    /\ dbItem' = DeleteItemByIDsItem(ids)
    /\ ids' = {}
    /\ pcPurge' = "load"
    /\ UNCHANGED <<dbItemUnit, dbLine, nextID, envVars, tickPurge, ticksMissed, errPurge, gcVars>>
    /\ UNCHANGED streamVars

\* Variant of cleanItemToDeleteDelete without the enclosing for loop: one batch
\* is deleted and the sweep returns nil.
cleanItemToDeleteDeleteOnce ==
    /\ pcPurge = "delete"
    /\ dbItem' = DeleteItemByIDsItem(ids)
    /\ dbItemUnit' = DeleteItemByIDsUnits(ids)
    /\ ids' = {}
    /\ pcPurge' = "select"
    /\ UNCHANGED <<nextID, envVars, tickPurge, ticksMissed, errPurge, gcVars>>
    /\ dbLine' = DeleteItemByIDsLines(ids)
    /\ UNCHANGED streamVars

\* cleanItemToDelete: index.DeleteItemByIDs(db, ids) succeeds, loop again.
cleanItemToDeleteDelete ==
    /\ pcPurge = "delete"
    /\ dbItem' = DeleteItemByIDsItem(ids)
    /\ dbItemUnit' = DeleteItemByIDsUnits(ids)
    /\ ids' = {}
    /\ pcPurge' = "load"
    /\ UNCHANGED <<nextID, envVars, tickPurge, ticksMissed, errPurge, gcVars>>
    /\ dbLine' = DeleteItemByIDsLines(ids)
    /\ UNCHANGED streamVars

\* cleanItemToDelete: the delete fails, the error is returned and logged.
cleanItemToDeleteDeleteErr ==
    /\ pcPurge = "delete"
    /\ ids' = {}
    /\ errPurge' = TRUE
    /\ pcPurge' = "select"
    /\ UNCHANGED <<dbVars, envVars, tickPurge, ticksMissed, gcVars>>
    /\ UNCHANGED <<dbLine, streamVars>>

\* ----------------------------------------------------------------- itemsGC
\* select, case <-ctx.Done(): return
itemsGCDone ==
    /\ pcGC = "select"
    /\ ctxDone
    /\ pcGC' = "done"
    /\ UNCHANGED <<dbVars, envVars, purgeVars, tickGC, itemIDs, itemUnits, errGC,
                   cbStart, metricsItemCompletedByGC>>
    /\ UNCHANGED <<dbLine, streamVars>>

\* Items that have an item unit in the buffer and in every registered
\* permanent unit.
FullyReplicated ==
    {i \in DOMAIN dbItem :
        HasUnit(i, BufferID) /\ \A u \in Storages : HasUnit(i, u)}

\* Variant of itemsGCTick that goes to cleanWaitingItem without running
\* cleanBuffer first.
itemsGCTickSkipsBuffer ==
    /\ pcGC = "select"
    /\ tickGC
    /\ tickGC' = FALSE
    /\ pcGC' = "cleanWaitingItem"
    /\ errGC' = FALSE
    /\ itemUnits' = {}
    /\ cbStart' = FullyReplicated
    /\ UNCHANGED <<dbVars, envVars, purgeVars, itemIDs, metricsItemCompletedByGC>>
    /\ UNCHANGED <<dbLine, streamVars>>

\* select, case <-tickGC.C: call cleanBuffer.
itemsGCTick ==
    /\ pcGC = "select"
    /\ tickGC
    /\ tickGC' = FALSE
    /\ pcGC' = "cleanBuffer"
    /\ errGC' = FALSE
    /\ itemUnits' = {}
    /\ cbStart' = FullyReplicated
    /\ UNCHANGED <<dbVars, envVars, purgeVars, itemIDs, metricsItemCompletedByGC>>
    /\ UNCHANGED <<dbLine, streamVars>>

\* cleanBuffer: the id of the first storage that is a *cds.CDS, else "".
cdsBackendID == IF CDSID \in Storages THEN CDSID ELSE EmptyID

\* cleanBuffer: cdsBackendID == "", return nil.
cleanBufferNoCDS ==
    /\ pcGC = "cleanBuffer"
    /\ cdsBackendID = EmptyID
    /\ pcGC' = "cleanWaitingItem"
    /\ UNCHANGED <<dbVars, envVars, purgeVars, tickGC, itemIDs, itemUnits, errGC,
                   cbStart, metricsItemCompletedByGC>>
    /\ UNCHANGED <<dbLine, streamVars>>

\* cleanBuffer: the replication query succeeds.
cleanBufferLoad ==
    /\ pcGC = "cleanBuffer"
    /\ cdsBackendID # EmptyID
    /\ itemIDs' = LoadAllItemsIDInBufferAndAllUnitsExceptCDS(cdsBackendID)
    /\ pcGC' = "cleanBufferTx"
    /\ UNCHANGED <<dbVars, envVars, purgeVars, tickGC, itemUnits, errGC,
                   cbStart, metricsItemCompletedByGC>>
    /\ UNCHANGED <<dbLine, streamVars>>

\* cleanBuffer: the replication query fails; itemsGC logs and goes on to
\* cleanWaitingItem.
cleanBufferLoadErr ==
    /\ pcGC = "cleanBuffer"
    /\ cdsBackendID # EmptyID
    /\ errGC' = TRUE
    /\ pcGC' = "cleanWaitingItem"
    /\ UNCHANGED <<dbVars, envVars, purgeVars, tickGC, itemIDs, itemUnits,
                   cbStart, metricsItemCompletedByGC>>
    /\ UNCHANGED <<dbLine, streamVars>>

\* Variant of cleanBufferDelete that ignores the query result and deletes the
\* buffer item unit of every item.
cleanBufferDeleteAll ==
    /\ pcGC = "cleanBufferTx"
    /\ dbItemUnit' = DeleteItemsUnit(BufferID, DOMAIN dbItem)
    /\ itemIDs' = {}
    /\ pcGC' = "cleanWaitingItem"
    /\ UNCHANGED <<dbItem, nextID, envVars, purgeVars, tickGC, itemUnits, errGC,
                   cbStart, metricsItemCompletedByGC>>
    /\ UNCHANGED <<dbLine, streamVars>>

\* Variant of cleanBufferDelete that deletes the item units of the unit the
\* query was made with instead of the buffer's.
cleanBufferDeleteBackend ==
    /\ pcGC = "cleanBufferTx"
    /\ dbItemUnit' = DeleteItemsUnit(cdsBackendID, itemIDs)
    /\ itemIDs' = {}
    /\ pcGC' = "cleanWaitingItem"
    /\ UNCHANGED <<dbItem, nextID, envVars, purgeVars, tickGC, itemUnits, errGC,
                   cbStart, metricsItemCompletedByGC>>
    /\ UNCHANGED <<dbLine, streamVars>>

\* cleanBuffer: Begin, storage.DeleteItemsUnit(tx, buffer, itemIDs), Commit.
cleanBufferDelete ==
    /\ pcGC = "cleanBufferTx"
    /\ dbItemUnit' = DeleteItemsUnit(BufferID, itemIDs)
    /\ itemIDs' = {}
    /\ pcGC' = "cleanWaitingItem"
    /\ UNCHANGED <<dbItem, nextID, envVars, purgeVars, tickGC, itemUnits, errGC,
                   cbStart, metricsItemCompletedByGC>>
    /\ UNCHANGED <<dbLine, streamVars>>

\* Variant of cleanBufferDeleteErr without the rollback: the buffer item unit of
\* one selected item is gone when the error is returned.
cleanBufferDeleteErrPartial ==
    /\ pcGC = "cleanBufferTx"
    /\ \E i \in itemIDs : dbItemUnit' = DeleteItemsUnit(BufferID, {i})
    /\ itemIDs' = {}
    /\ errGC' = TRUE
    /\ pcGC' = "cleanWaitingItem"
    /\ UNCHANGED <<dbItem, nextID, envVars, purgeVars, tickGC, itemUnits,
                   cbStart, metricsItemCompletedByGC>>
    /\ UNCHANGED <<dbLine, streamVars>>

\* cleanBuffer: Begin, the delete or Commit fails; the transaction is rolled back.
cleanBufferDeleteErr ==
    /\ pcGC = "cleanBufferTx"
    /\ itemIDs' = {}
    /\ errGC' = TRUE
    /\ pcGC' = "cleanWaitingItem"
    /\ UNCHANGED <<dbVars, envVars, purgeVars, tickGC, itemUnits,
                   cbStart, metricsItemCompletedByGC>>
    /\ UNCHANGED <<dbLine, streamVars>>

\* cleanWaitingItem: the load of the stale Incoming item units succeeds.
cleanWaitingItemLoad ==
    /\ pcGC = "cleanWaitingItem"
    /\ itemUnits' = LoadOldItemUnitByItemStatusAndDuration(StatusItemIncoming, ItemLogGC)
    /\ pcGC' = IF itemUnits' = {} THEN "select" ELSE "range"
    /\ UNCHANGED <<dbVars, envVars, purgeVars, tickGC, itemIDs, errGC,
                   cbStart, metricsItemCompletedByGC>>
    /\ UNCHANGED <<dbLine, streamVars>>

\* cleanWaitingItem: the load fails.
cleanWaitingItemLoadErr ==
    /\ pcGC = "cleanWaitingItem"
    /\ errGC' = TRUE
    /\ pcGC' = "select"
    /\ UNCHANGED <<dbVars, envVars, purgeVars, tickGC, itemIDs, itemUnits,
                   cbStart, metricsItemCompletedByGC>>
    /\ UNCHANGED <<dbLine, streamVars>>

\* Variant of cleanWaitingItemComplete that writes the status the load was
\* made with instead of Completed.
cleanWaitingItemWritesIncoming(iu) ==
    /\ pcGC = "range"
    /\ iu \in itemUnits
    /\ iu[1] \in DOMAIN dbItem
    /\ dbItem' = [dbItem EXCEPT ![iu[1]].status = StatusItemIncoming]
    /\ metricsItemCompletedByGC' = metricsItemCompletedByGC + 1
    /\ itemUnits' = itemUnits \ {iu}
    /\ pcGC' = IF itemUnits' = {} THEN "select" ELSE "range"
    /\ UNCHANGED <<dbItemUnit, nextID, envVars, purgeVars, tickGC, itemIDs, errGC,
                   cbStart>>
    /\ UNCHANGED <<dbLine, streamVars>>

\* cleanWaitingItem, one iteration of the range loop: Begin, completeItem,
\* Commit all succeed and the metric is recorded.
cleanWaitingItemComplete(iu) ==
    /\ pcGC = "range"
    /\ iu \in itemUnits
    /\ iu[1] \in DOMAIN dbItem
    /\ dbItem' = completeItem(iu)
    /\ metricsItemCompletedByGC' = metricsItemCompletedByGC + 1
    /\ itemUnits' = itemUnits \ {iu}
    /\ pcGC' = IF itemUnits' = {} THEN "select" ELSE "range"
    /\ UNCHANGED <<dbItemUnit, nextID, envVars, purgeVars, tickGC, itemIDs, errGC,
                   cbStart>>
    /\ UNCHANGED <<dbLine, streamVars>>

\* cleanWaitingItem, one iteration of the range loop: Begin, completeItem or
\* Commit fails; the transaction is rolled back and the error is returned.
cleanWaitingItemErr(iu) ==
    /\ pcGC = "range"
    /\ iu \in itemUnits
    /\ itemUnits' = itemUnits \ {iu}
    /\ errGC' = TRUE
    /\ pcGC' = "select"
    /\ UNCHANGED <<dbVars, envVars, purgeVars, tickGC, itemIDs,
                   cbStart, metricsItemCompletedByGC>>
    /\ UNCHANGED <<dbLine, streamVars>>

\* ------------------------------------------------------------ specification
Ingestion == storeLogsNew \/ \E i \in ItemIDs : storeLogs(i)
Replication == \E i \in ItemIDs, u \in PermanentIDs : Replicate(i, u)
Producer == \E i \in ItemIDs : ProducerComplete(i)
Marking == \E sel \in Selectors : markToDelete(sel)
Listing == \E o \in Offsets, l \in Limits : getItemLogsLinesHandler(o, l)
Streaming ==
    \/ \E o \in Offsets : subscribe(o)
    \/ subscribeReplay
    \/ subscribeDeliver
cleanItemToDelete ==
    \/ cleanItemToDeleteLoad
    \/ cleanItemToDeleteLoadErr
    \/ cleanItemToDeleteDelete
    \/ cleanItemToDeleteDeleteErr
cleanBuffer ==
    \/ cleanBufferNoCDS
    \/ cleanBufferLoad
    \/ cleanBufferLoadErr
    \/ cleanBufferDelete
    \/ cleanBufferDeleteErr
cleanWaitingItem ==
    \/ cleanWaitingItemLoad
    \/ cleanWaitingItemLoadErr
    \/ \E iu \in itemUnits : cleanWaitingItemComplete(iu)
    \/ \E iu \in itemUnits : cleanWaitingItemErr(iu)
itemPurge == itemPurgeDone \/ itemPurgeTick \/ cleanItemToDelete
itemsGC == itemsGCDone \/ itemsGCTick \/ cleanBuffer \/ cleanWaitingItem

Next ==
    \/ TimePasses
    \/ Ingestion
    \/ Replication
    \/ Producer
    \/ Marking
    \/ sendMessage
    \/ \E n \in LineNumbers : storeLogsAt(StreamItem, n)
    \/ Listing
    \/ Streaming
    \/ Cancel
    \/ TickPurgeFires
    \/ TickPurgeDropped
    \/ TickGCFires
    \/ itemPurge
    \/ itemsGC

Spec == Init /\ [][Next]_vars

TypeOK ==
    /\ Storages \subseteq PermanentIDs
    /\ DOMAIN dbItem \subseteq ItemIDs
    /\ \A k \in DOMAIN dbItemUnit : k[1] \in DOMAIN dbItem /\ dbItemUnit[k] \in Ages
    /\ pcPurge \in {"select", "load", "delete", "done"}
    /\ pcGC \in {"select", "cleanBuffer", "cleanBufferTx", "cleanWaitingItem", "range", "done"}

\* Buffer eviction against ingestion, replication, marking and the
\* hard-delete sweep.
NextEvict ==
    \/ Ingestion
    \/ Replication
    \/ Marking
    \/ TickPurgeFires
    \/ itemPurgeTick
    \/ cleanItemToDeleteLoad
    \/ cleanItemToDeleteDelete
    \/ TickGCFires
    \/ itemsGCTick
    \/ cleanBuffer
    \/ cleanWaitingItemLoad

SpecEvict == Init /\ [][NextEvict]_vars

\* Stale-incoming completion against ingestion, the clock, the producer's
\* end-of-stream, marking and buffer eviction.
NextComplete ==
    \/ TimePasses
    \/ Ingestion
    \/ Producer
    \/ Marking
    \/ TickGCFires
    \/ itemsGCTick
    \/ cleanBuffer
    \/ cleanWaitingItem

SpecComplete == Init /\ [][NextComplete]_vars

\* The hard-delete sweep with every other writer of the registry: ingestion,
\* marking, the clock, buffer eviction and stale-incoming completion.
NextPurge ==
    \/ TimePasses
    \/ Ingestion
    \/ Marking
    \/ TickPurgeFires
    \/ itemPurgeTick
    \/ cleanItemToDeleteLoad
    \/ cleanItemToDeleteDelete
    \/ TickGCFires
    \/ itemsGCTick
    \/ cleanBufferNoCDS
    \/ cleanBufferLoad
    \/ cleanBufferDelete
    \/ cleanWaitingItem

SpecPurge == Init /\ [][NextPurge]_vars

\* The two loops in full, with cancellation and store errors, over a registry
\* that ingestion, the clock and marking fill; the legacy unit, registered or
\* not, is the only permanent unit.
InitLoops == Init /\ Storages \subseteq {CDSID}

NextLoops ==
    \/ TimePasses
    \/ storeLogsNew
    \/ Marking
    \/ Cancel
    \/ TickPurgeFires
    \/ TickGCFires
    \/ itemPurge
    \/ itemsGC

SpecLoops == InitLoops /\ [][NextLoops]_vars

\* The hard-delete sweep alone, without store errors or concurrent marking,
\* over a registry that holds a backlog of flagged items (all items, or all
\* but the first).  The goroutine keeps running: weak fairness on its steps.
InitSweep ==
    /\ Storages = {}
    /\ \E n \in 0..MaxBacklog, keep \in {0, 1} :
         /\ dbItem = [i \in 1..n |->
                        [status |-> StatusItemIncoming, toDelete |-> i > keep]]
         /\ dbItemUnit = [k \in {<<i, BufferID>> : i \in 1..n} |-> 0]
         /\ dbLine = {<<i, 0>> : i \in 1..n}
         /\ nextID = n + 1
    /\ InitService

NextSweep ==
    \/ TickPurgeFires
    \/ itemPurgeTick
    \/ cleanItemToDeleteLoad
    \/ cleanItemToDeleteDelete

SpecSweep ==
    /\ InitSweep
    /\ [][NextSweep]_vars
    /\ WF_vars(cleanItemToDeleteLoad \/ cleanItemToDeleteDelete)

\* The mark-for-deletion request over a registry of up to MaxMark items, none
\* flagged yet, with the hard-delete sweep that consumes the flag.
InitMark ==
    /\ Storages = {}
    /\ \E n \in 0..MaxMark :
         /\ dbItem = [i \in 1..n |->
                        [status |-> StatusItemIncoming, toDelete |-> FALSE]]
         /\ dbItemUnit = [k \in {<<i, BufferID>> : i \in 1..n} |-> 0]
         /\ dbLine = {}
         /\ nextID = n + 1
    /\ InitService

NextMark ==
    \/ Marking
    \/ TickPurgeFires
    \/ itemPurgeTick
    \/ cleanItemToDeleteLoad
    \/ cleanItemToDeleteDelete

SpecMark == InitMark /\ [][NextMark]_vars

\* The live stream of one item: the producer of the stream test against one
\* subscription opened at any moment with any offset.
NextStream ==
    \/ sendMessage
    \/ Streaming

SpecStream == Init /\ [][NextStream]_vars

\* The listing of one item whose producer numbers its lines as it likes.
NextLines ==
    \/ \E n \in LineNumbers : storeLogsAt(StreamItem, n)
    \/ Listing

SpecLines == Init /\ [][NextLines]_vars

\* The writers and removers of item units and lines together: ingestion of
\* lines, replication, marking, the hard-delete sweep and buffer eviction.
NextCascade ==
    \/ \E i \in ItemIDs : storeLogsAt(i, 0)
    \/ Replication
    \/ Marking
    \/ TickPurgeFires
    \/ itemPurgeTick
    \/ cleanItemToDeleteLoad
    \/ cleanItemToDeleteDelete
    \/ TickGCFires
    \/ itemsGCTick
    \/ cleanBufferNoCDS
    \/ cleanBufferLoad
    \/ cleanBufferDelete
    \/ cleanWaitingItemLoad

SpecCascade == InitLoops /\ [][NextCascade]_vars

\* The two loops with the scheduling the runtime gives them: a ticker keeps
\* ticking and a goroutine that can take a step takes one.
SpecLoopsFair ==
    /\ SpecLoops
    /\ WF_vars(TickPurgeFires)
    /\ WF_vars(TickGCFires)
    /\ WF_vars(itemPurge)
    /\ WF_vars(itemsGC)

\* Cancellation against the two loops while the sweep has nothing to drain or
\* the largest backlog, several batches; no permanent unit is registered.
InitDrain == InitSweep /\ nextID \in {1, MaxBacklog + 1}

\* A goroutine that can take a step takes one, and a select statement that
\* finds the cancellation ready again and again ends up taking it: the choice
\* among ready cases is uniformly random.
NextDrain ==
    \/ Cancel
    \/ TickPurgeFires
    \/ TickGCFires
    \/ itemPurge
    \/ itemsGCDone
    \/ itemsGCTick
    \/ cleanBufferNoCDS
    \/ cleanWaitingItemLoad
    \/ cleanWaitingItemLoadErr

SpecDrain ==
    /\ InitDrain
    /\ [][NextDrain]_vars
    /\ WF_vars(cleanItemToDelete)
    /\ WF_vars(cleanBufferNoCDS \/ cleanWaitingItemLoad \/ cleanWaitingItemLoadErr)
    /\ SF_vars(itemPurgeDone)
    /\ SF_vars(itemsGCDone)

\* Both loops and their tickers over a registry whose backlog of flagged
\* items is empty or takes several batches, with the ticks that tickPurge
\* drops while its channel is full and the store errors of the sweep.
NextTicks ==
    \/ TickPurgeFires
    \/ TickPurgeDropped
    \/ TickGCFires
    \/ itemPurgeTick
    \/ cleanItemToDelete
    \/ itemsGCTick
    \/ cleanBufferNoCDS
    \/ cleanWaitingItemLoad
    \/ cleanWaitingItemLoadErr

SpecTicks == InitDrain /\ [][NextTicks]_vars

\* ------------------------------------------------------------------ claims
\* The step removes the buffer item unit of item i while the item stays: this
\* is what cleanBuffer does (the hard-delete sweep removes the item as well).
Evicts(i) ==
    /\ HasUnit(i, BufferID)
    /\ i \in DOMAIN dbItem'
    /\ <<i, BufferID>> \notin DOMAIN dbItemUnit'

\* C1: cleanBuffer removes the buffer item unit of an item only if, at the
\* moment the row is removed, the item has an item unit in every registered
\* permanent unit other than the legacy one.  (A step that leaves the item
\* units as they are evicts nothing.)
C1_EvictOnlyReplicated ==
    [][dbItemUnit' # dbItemUnit => \A i \in ItemIDs :
         Evicts(i) => \A u \in Storages \ {CDSID} : HasUnit(i, u)]_vars

\* An item evicted from the buffer that sits in a non-legacy permanent unit.
C1_Witness ==
    \E i \in DOMAIN dbItem :
        /\ ~HasUnit(i, BufferID)
        /\ Storages \ {CDSID} # {}
        /\ \A u \in Storages \ {CDSID} : HasUnit(i, u)

\* C2: in every configuration of units, an item whose buffer item unit is
\* removed by cleanBuffer has an item unit in at least one permanent unit, and
\* with no permanent unit registered nothing is removed.
C2_EvictOnlyWithDurableCopy ==
    [][\A i \in ItemIDs :
         Evicts(i) => (Storages # {} /\ \E u \in PermanentIDs : HasUnit(i, u))]_vars

\* The step is cleanBuffer returning nil.
cleanBufferReturnsNil ==
    /\ pcGC \in {"cleanBuffer", "cleanBufferTx"}
    /\ pcGC' = "cleanWaitingItem"
    /\ ~errGC'

\* C3: without a legacy unit and with at least one permanent unit, a
\* cleanBuffer run that returns nil has removed the buffer item unit of every
\* item that was in the buffer and in every permanent unit when the run began.
C3_EvictsWithoutLegacy ==
    [][(cleanBufferReturnsNil /\ CDSID \notin Storages /\ Storages # {})
         => \A i \in cbStart : <<i, BufferID>> \notin DOMAIN dbItemUnit']_vars

\* The step is cleanWaitingItem returning from inside its range loop.
cleanWaitingItemReturns == pcGC = "range" /\ pcGC' = "select"

\* C4: when the force-completion of one item fails, every other item of the
\* loaded list is still force-completed in the same run: when the run returns,
\* no item queued behind is left uncompleted.
C4_FailureDoesNotBlockSiblings ==
    [][cleanWaitingItemReturns
         => \A k \in itemUnits' :
              k[1] \in DOMAIN dbItem' => dbItem'[k[1]].status = StatusItemCompleted]_vars

\* C5: the status of an item only ever goes from Incoming to Completed, and
\* completing a Completed item (by the producer or by cleanWaitingItem) leaves
\* the registry as it was.
C5_StatusMonotonic ==
    [][/\ \A i \in DOMAIN dbItem \cap DOMAIN dbItem' :
            /\ dbItem'[i].status \in {StatusItemIncoming, StatusItemCompleted}
            /\ dbItem[i].status = StatusItemCompleted
                 => dbItem'[i].status = StatusItemCompleted
       /\ \A i \in DOMAIN dbItem :
            (dbItem[i].status = StatusItemCompleted
               /\ (ProducerComplete(i)
                     \/ \E iu \in itemUnits : iu[1] = i /\ cleanWaitingItemComplete(iu)))
              => UNCHANGED <<dbItem, dbItemUnit>>]_vars

\* The range loop has force-completed an item and holds a further item unit
\* whose item was completed in the meantime.
C5_Witness ==
    /\ pcGC = "range"
    /\ metricsItemCompletedByGC > 0
    /\ \E iu \in itemUnits :
         iu[1] \in DOMAIN dbItem /\ dbItem[iu[1]].status = StatusItemCompleted

\* The step is an iteration of cleanWaitingItem that changes the status of i.
ForceCompletes(i) ==
    /\ pcGC = "range"
    /\ metricsItemCompletedByGC' # metricsItemCompletedByGC
    /\ i \in DOMAIN dbItem
    /\ dbItem'[i].status # dbItem[i].status

\* C6: cleanWaitingItem changes the status only of items that are Incoming
\* and whose last-write age exceeds ItemLogGC at the time of the change.
C6_OnlyStaleCompleted ==
    [][\A i \in ItemIDs :
         ForceCompletes(i)
           => /\ dbItem[i].status = StatusItemIncoming
              /\ \A iu \in itemUnits \ itemUnits' :
                   iu \in DOMAIN dbItemUnit /\ dbItemUnit[iu] > ItemLogGC]_vars

Flagged == {i \in DOMAIN dbItem : dbItem[i].toDelete}

\* The step is cleanItemToDelete returning nil.
cleanItemToDeleteReturnsNil ==
    /\ pcPurge \in {"load", "delete"}
    /\ pcPurge' = "select"
    /\ ~errPurge'

\* C7: without store errors and concurrent marking a run of cleanItemToDelete
\* terminates, and when it returns nil no item flagged toDelete remains,
\* whatever the size of the backlog against the batch size.
C7_SweepDrains ==
    /\ [][cleanItemToDeleteReturnsNil
            => \A i \in DOMAIN dbItem' : ~dbItem'[i].toDelete]_vars
    /\ [](pcPurge \in {"load", "delete"} => <>(pcPurge = "select"))

\* A backlog of more than two batches has been drained and the sweep is back
\* in the select.
C7_Witness ==
    /\ nextID - 1 > 2 * BatchSize
    /\ pcPurge = "select"
    /\ Flagged = {}
    /\ Cardinality(DOMAIN dbItem) <= 1

\* C8: an item row is removed only by the delete step of cleanItemToDelete,
\* only if its id is in the loaded batch and its toDelete flag is set; every
\* id of a loaded batch was flagged when it was loaded.
C8_OnlyFlaggedDeleted ==
    [][/\ \A i \in DOMAIN dbItem \ DOMAIN dbItem' :
            /\ pcPurge = "delete" /\ pcPurge' = "load"
            /\ i \in ids
            /\ dbItem[i].toDelete
       /\ (pcPurge = "load" /\ pcPurge' = "delete")
            => \A i \in ids' : i \in DOMAIN dbItem /\ dbItem[i].toDelete]_vars

\* An item has been hard-deleted while an unflagged one is still there.
C8_Witness ==
    /\ \E i \in 1..(nextID - 1) : i \notin DOMAIN dbItem
    /\ \E i \in DOMAIN dbItem : ~dbItem[i].toDelete

\* C9: neither loop returns unless the context is cancelled; a sweep that
\* returns an error leaves its loop running, and the loop starts the sweep
\* again unless the context is cancelled first.
C9_ErrorsNotFatal ==
    /\ [][/\ (pcPurge' = "done" /\ pcPurge # "done") => ctxDone
          /\ (pcGC' = "done" /\ pcGC # "done") => ctxDone
          /\ (errPurge' /\ ~errPurge) => pcPurge' = "select"
          /\ (errGC' /\ ~errGC) => pcGC' \in {"cleanWaitingItem", "select"}]_vars
    /\ [](errPurge => <>(pcPurge = "load" \/ ctxDone))
    /\ [](errGC => <>(pcGC = "cleanBuffer" \/ ctxDone))

\* cleanBuffer has returned an error and itemsGC is ranging in
\* cleanWaitingItem; cleanItemToDelete has returned an error and itemPurge is
\* in its select with the next tick pending.
C9_Witness ==
    /\ ~ctxDone
    /\ errGC /\ pcGC = "range"
    /\ errPurge /\ pcPurge = "select" /\ tickPurge

\* The step begins a run of one of the three sweeps.
SweepBegins ==
    \/ pcPurge = "select" /\ pcPurge' = "load"
    \/ pcGC = "select" /\ pcGC' = "cleanBuffer"
    \/ pcGC \in {"cleanBuffer", "cleanBufferTx"} /\ pcGC' = "cleanWaitingItem"

\* C10: once the context is cancelled no run of cleanItemToDelete,
\* cleanBuffer or cleanWaitingItem begins.
C10_NoSweepAfterCancel ==
    [][ctxDone => ~SweepBegins]_vars

\* A step of a cleanBuffer run: the query, the transaction, or a return.
cleanBufferSteps ==
    /\ pcGC \in {"cleanBuffer", "cleanBufferTx"}
    /\ pcGC' # pcGC

\* C11: a run of cleanBuffer, whether it succeeds or fails, leaves the status
\* and the toDelete flag of every item unchanged, removes no item row, and
\* removes or creates no item unit of a unit other than the buffer.
C11_cleanBufferFrame ==
    [][cleanBufferSteps =>
          /\ dbItem' = dbItem
          /\ DOMAIN dbItemUnit' \subseteq DOMAIN dbItemUnit
          /\ \A k \in DOMAIN dbItemUnit :
                 k[2] # BufferID => k \in DOMAIN dbItemUnit']_vars

\* A cleanBuffer run has evicted an item that has an item unit in the legacy
\* unit and is Incoming or flagged.
C11_Witness ==
    /\ pcGC = "cleanWaitingItem"
    /\ \E i \in cbStart \cap DOMAIN dbItem :
           /\ ~HasUnit(i, BufferID)
           /\ HasUnit(i, CDSID)
           /\ dbItem[i].toDelete

\* The step is an iteration of cleanWaitingItem that takes item i from
\* Incoming to Completed.
GCCompletes(i) ==
    /\ pcGC = "range"
    /\ itemUnits' # itemUnits
    /\ i \in DOMAIN dbItem /\ i \in DOMAIN dbItem'
    /\ dbItem[i].status = StatusItemIncoming
    /\ dbItem'[i].status = StatusItemCompleted

\* C12: the GC-completion metric is incremented exactly once for each item
\* whose status a cleanWaitingItem iteration changes from Incoming to
\* Completed, and on no other step, so that it counts the GC-forced
\* completions.
C12_MetricCountsForcedCompletions ==
    [][/\ metricsItemCompletedByGC' \in
            {metricsItemCompletedByGC, metricsItemCompletedByGC + 1}
       /\ metricsItemCompletedByGC' = metricsItemCompletedByGC + 1
            <=> \E i \in ItemIDs : GCCompletes(i)]_vars

\* The toDelete flags of a step are exactly those the selector asks for: every
\* item row stays, an item is flagged after the step iff it was flagged before
\* or its apiRef has the run id (when the selector gives one) or else the
\* workflow id of the selector, and nothing else of the item changes.
MarkEffect(sel) ==
    /\ DOMAIN dbItem' = DOMAIN dbItem
    /\ \A i \in DOMAIN dbItem :
         /\ dbItem'[i].status = dbItem[i].status
         /\ dbItem'[i].toDelete =
              (\/ dbItem[i].toDelete
               \/ sel.runID # 0 /\ RunID(i) = sel.runID
               \/ sel.runID = 0 /\ WorkflowID(i) = sel.workflowID)

\* C13: markToDelete with selector runID = R flags exactly the items whose
\* apiRef.runID is R and with selector workflowID = W exactly those whose
\* apiRef.workflowID is W; other items keep their flag, and no step of marking
\* or of the sweep clears a flag of an item that stays.
C13_MarkExactlyMatching ==
    [][/\ \A sel \in Selectors : markToDelete(sel) => MarkEffect(sel)
       /\ \A i \in DOMAIN dbItem \cap DOMAIN dbItem' :
            dbItem[i].toDelete => dbItem'[i].toDelete]_vars

\* The example of the handler's test after its two requests: of the items
\* (run 1, workflow 1), (run 2, workflow 2), (run 3, workflow 2) the first two
\* are flagged and the third is not.
C13_Witness ==
    /\ DOMAIN dbItem = {1, 2, 3}
    /\ dbItem[1].toDelete /\ dbItem[2].toDelete /\ ~dbItem[3].toDelete
    /\ WorkflowID(3) = WorkflowID(2) /\ WorkflowID(1) # WorkflowID(2)

\* C14: with lines 0..N-1 ingested into one item, a subscription opened with
\* offset k at any moment of the ingestion has been delivered lines k, k+1,
\* ... in this order, each once and none below k or not yet ingested, and
\* when it has emptied its queue it has been delivered all of k..N-1.
C14_SubscriberGetsExactlyFromOffset ==
    subState # "closed" =>
        /\ \A j \in 1..Len(subOut) :
             subOut[j] = subOffset + j - 1 /\ subOut[j] < messageCounter
        /\ (subState = "live" /\ subQueue = << >>) =>
             Len(subOut) = IF messageCounter > subOffset
                           THEN messageCounter - subOffset ELSE 0

\* A subscription opened with an offset above 0 during the ingestion has
\* replayed stored lines and finds in its queue a line it replayed: the line
\* was ingested between the registration and the replay.
C14_Witness ==
    /\ subState = "live"
    /\ subOffset > 0
    /\ subOut # << >>
    /\ subQueue # << >>
    /\ Head(subQueue) <= lastDelivered

\* What a listing of the stored line numbers must be: ascending without
\* repetition, made of stored numbers from the offset on, as many of them as
\* there are up to the limit, and the lowest ones.
ListingOf(resp, i, offset, limit) ==
    LET stored == {l[2] : l \in {m \in dbLine : m[1] = i}}
        wanted == {n \in stored : n >= offset}
    IN  /\ \A j \in 1..(Len(resp) - 1) : resp[j] < resp[j + 1]
        /\ \A j \in 1..Len(resp) : resp[j] \in wanted
        /\ Len(resp) = IF limit < Cardinality(wanted)
                       THEN limit ELSE Cardinality(wanted)
        /\ \A n \in wanted :
             (\E j \in 1..Len(resp) : resp[j] > n)
                => \E j \in 1..Len(resp) : resp[j] = n

\* C15: getLines(itemID, offset, limit) returns the stored lines of the item
\* with number >= offset, each once, ascending, at most limit of them, each
\* under the number it was ingested with, whatever the gaps in the numbering.
C15_GetLinesFromOffset ==
    \A o \in Offsets, l \in Limits :
        ListingOf(getLines(StreamItem, o, l), StreamItem, o, l)

\* The listing test: a single line ingested with number 2 is listed as one
\* line numbered 2.
C15_Witness ==
    /\ dbLine = {<<StreamItem, 2>>}
    /\ linesReq.offset = 0 /\ linesReq.limit > 0
    /\ linesResp = <<2>>

\* C16: cleanBuffer computes the fully-replicated item ids inside the
\* transaction that deletes the buffer item units: between the query and the
\* delete no step of ingestion, replication or the sweep changes the
\* registry, and the ids the delete is made with are those the query gives
\* on the registry the delete sees.
C16_QueryInsideEvictionTransaction ==
    [][pcGC = "cleanBufferTx" =>
          /\ pcGC' = pcGC => UNCHANGED dbVars
          /\ pcGC' # pcGC =>
                itemIDs = LoadAllItemsIDInBufferAndAllUnitsExceptCDS(cdsBackendID)]_vars

\* C17 as stated: the hard-delete sweep, buffer eviction and stale-incoming
\* completion are independent, each on its own timer, so that a run of
\* cleanWaitingItem can start while a run of cleanBuffer is in progress.
C17_ThreeIndependentProcesses ==
    pcGC \in {"cleanBuffer", "cleanBufferTx"} => ENABLED cleanWaitingItemLoad

\* C17, amended: there are two loops, each on its own timer.  itemPurge runs
\* the hard-delete sweep; itemsGC runs, on every tick, cleanBuffer and then
\* cleanWaitingItem: a run of cleanWaitingItem starts only at the return of
\* the cleanBuffer run of the same tick.  A step of one loop leaves the
\* position and the tick of the other alone.
C17_TwoLoopsEvictionThenCompletion ==
    [][/\ (pcGC = "select" /\ pcGC' \notin {"select", "done"})
            => pcGC' = "cleanBuffer"
       /\ (pcGC # "cleanWaitingItem" /\ pcGC' = "cleanWaitingItem")
            => pcGC \in {"cleanBuffer", "cleanBufferTx"}
       /\ (pcGC # "range" /\ pcGC' = "range") => pcGC = "cleanWaitingItem"
       /\ pcPurge' # pcPurge => UNCHANGED <<pcGC, tickGC>>
       /\ pcGC' # pcGC => UNCHANGED <<pcPurge, tickPurge>>]_vars

\* The sweep is between its load and its delete while itemsGC, past a
\* cleanBuffer run, is in the range loop of cleanWaitingItem.
C17_Witness ==
    /\ pcPurge = "delete"
    /\ pcGC = "range"

\* The ids of the item rows hard-deleted so far: an id leaves the registry
\* only by being passed to DeleteItemByIDs, and ids are issued once.
HardDeleted == (1..(nextID - 1)) \ DOMAIN dbItem

\* C18: every call of the hard-delete operation by cleanItemToDelete is made
\* with at least 1 and at most 100 ids, each the id of an item flagged
\* toDelete, and none of them an id that was passed to it before.
C18_BatchesOfFlaggedIDs ==
    [][(pcPurge = "delete" /\ pcPurge' # "delete") =>
          /\ Cardinality(ids) >= 1
          /\ Cardinality(ids) <= 100
          /\ \A i \in ids : i \in DOMAIN dbItem /\ dbItem[i].toDelete
          /\ ids \cap HardDeleted = {}]_vars

\* The second call of a run over a backlog of more than two batches: one
\* full batch is gone, a full batch is loaded, flagged items remain after it.
C18_Witness ==
    /\ pcPurge = "delete"
    /\ Cardinality(HardDeleted) = BatchSize
    /\ Cardinality(ids) = BatchSize
    /\ Flagged \ ids # {}

\* C19: under any interleaving of ingestion, replication, cleanBuffer and the
\* hard-delete sweep, every item unit and every line refers to an item that
\* exists: none is left behind by a hard delete and none is created for a
\* deleted item.
C19_NoOrphanRows ==
    /\ \A k \in DOMAIN dbItemUnit : k[1] \in DOMAIN dbItem
    /\ \A l \in dbLine : l[1] \in DOMAIN dbItem

\* An item that had a line and an item unit has been hard-deleted while
\* another item with a line and a replicated item unit is still there.
C19_Witness ==
    /\ HardDeleted # {}
    /\ \E i \in DOMAIN dbItem : <<i, 0>> \in dbLine /\ HasUnit(i, CDSID)

\* C20: after the context is cancelled itemPurge and itemsGC both return,
\* also when the cancellation comes while cleanItemToDelete is draining a
\* backlog of several batches.
C20_LoopsReturnAfterCancel ==
    ctxDone ~> (pcPurge = "done" /\ pcGC = "done")

\* The context is cancelled while cleanItemToDelete, one batch deleted and the
\* next loaded, still has flagged items beyond it.
C20_Witness ==
    /\ ctxDone
    /\ pcPurge = "delete"
    /\ Cardinality(HardDeleted) = BatchSize
    /\ Flagged \ ids # {}

\* C21: eviction in cleanBuffer is all or nothing.  A step of a cleanBuffer
\* run either leaves the item units as they are or removes the buffer item
\* unit of every selected item and nothing else; a step that returns an error
\* leaves them as they are.
C21_EvictionAllOrNothing ==
    [][cleanBufferSteps =>
          /\ \/ dbItemUnit' = dbItemUnit
             \/ /\ \A i \in itemIDs : <<i, BufferID>> \notin DOMAIN dbItemUnit'
                /\ \A k \in DOMAIN dbItemUnit \ DOMAIN dbItemUnit' :
                     k[2] = BufferID /\ k[1] \in itemIDs
          /\ errGC' => dbItemUnit' = dbItemUnit]_vars

\* A cleanBuffer run has returned an error and an item that was buffered and
\* fully replicated when the run began still has its buffer item unit.
C21_Witness ==
    /\ pcGC = "cleanWaitingItem"
    /\ errGC
    /\ \E i \in cbStart : HasUnit(i, BufferID) /\ HasUnit(i, CDSID)

\* C22: at most one run of each sweep is in progress at any moment and ticks
\* do not accumulate.  A run begins only while its loop waits in the select,
\* by taking the tick its channel holds, and leaves no tick pending behind it:
\* however many ticks were dropped during the previous run, a second run needs
\* a new tick.  A tick that fires starts no run by itself.
C22_TicksDoNotAccumulate ==
    [][/\ (pcPurge' = "load" /\ pcPurge \notin {"load", "delete"}) =>
             pcPurge = "select" /\ tickPurge /\ ~tickPurge'
       /\ (tickPurge /\ ~tickPurge') => pcPurge = "select" /\ pcPurge' = "load"
       /\ (pcGC' = "cleanBuffer" /\ pcGC # "cleanBuffer") => pcGC = "select" /\ tickGC /\ ~tickGC'
       /\ (tickGC /\ ~tickGC') => pcGC = "select" /\ pcGC' = "cleanBuffer"
       /\ (tickPurge' /\ ~tickPurge) => pcPurge' = pcPurge
       /\ (tickGC' /\ ~tickGC) => pcGC' = pcGC]_vars

\* A cleanItemToDelete run that deleted more than two batches has returned;
\* tickPurge dropped several ticks since that run began and holds one.
C22_Witness ==
    /\ pcPurge = "select"
    /\ tickPurge
    /\ ticksMissed >= 2
    /\ Cardinality(HardDeleted) > 2 * BatchSize
    /\ Flagged = {}

====
